---- MODULE Spec2Model ----
(***************************************************************************)
(* State-machine model of the live-chat routing engine of src/index.py:    *)
(* the in-memory registry (agents), the domain queues (agent_queues), the  *)
(* session map (users_mapping), the three durable tables the handlers use  *)
(* (agents, users, conversations) with their UNIQUE and FOREIGN KEY        *)
(* constraints, and the Socket.IO handlers register_agent, agent_offline,  *)
(* request_live_chat, restore_chats, send_message, end_chat, disconnect.   *)
(*                                                                         *)
(* Timestamps and display names carry no control flow and are left out.    *)
(***************************************************************************)
EXTENDS Integers, Sequences, FiniteSets, TLC

\* Connection ids (request.sid) of agent clients and of user clients.  A
\* persistent identity is always the sid of some connection: its own, or an
\* earlier one handed back as old_agent_id / old_user_id.
AgentSids == {"a1", "a2"}
UserSids == {"u1", "u2", "u3"}
Sids == AgentSids \cup UserSids
Ids == Sids
Domains == {"d1", "d2"}

\* Python None, a missing payload field, SQL NULL.
None == "None"

MAX_USERS_PER_AGENT == 2

\* Bounds of the model.
MaxQueue == 2
MaxList == 3
MaxMsgs == 2
MaxSteps == 5
MaxDeepSteps == 6
MaxInflight == 2

VARIABLES
    agents,            \* in-memory dict: agent id -> [status, domain]
    users_mapping,     \* in-memory dict: user id -> agent id, agent id -> list of user ids
    agent_queues,      \* in-memory dict: domain -> deque of agent ids
    db_agents,         \* table agents: agent_connection_id -> [domain, status, user_count]
    db_users,          \* table users: user_connection_id -> [agent]
    db_conversations,  \* table conversations: user_connection_id -> [agent, messages, status]
    rooms,             \* Socket.IO rooms: room name -> connections that joined it
    opened,            \* connections whose transport has connected
    closed,            \* connections whose transport has disconnected
    steps,             \* number of events handled so far
    inflight,          \* request_live_chat handlers between their SELECT and their UPDATE
    relaying,          \* send_message handlers between their SELECT and their UPDATE
    ended,             \* users whose session end_chat has closed since its admission
    appended,          \* per conversation key, the messages send_message has recorded
    ev,                \* the event handled last and its outcome
    emitted            \* the notifications the last handler emitted, in order

vars == <<agents, users_mapping, agent_queues, db_agents, db_users,
          db_conversations, rooms, opened, closed, steps, inflight, relaying, ended,
          appended, ev, emitted>>

----------------------------------------------------------------------------
\* Python dict / list helpers.

Put(f, k, v) == [x \in DOMAIN f \cup {k} |-> IF x = k THEN v ELSE f[x]]

Del(f, k) == [x \in DOMAIN f \ {k} |-> f[x]]

InSeq(s, x) == \E i \in 1..Len(s) : s[i] = x

Count(s, x) == Cardinality({i \in 1..Len(s) : s[i] = x})

\* list.remove(x) / deque.remove(x): drops the FIRST occurrence only.
RemoveFirst(s, x) ==
    IF ~InSeq(s, x) THEN s
    ELSE LET i == CHOOSE j \in 1..Len(s) : s[j] = x /\ \A k \in 1..(j-1) : s[k] # x
         IN [k \in 1..(Len(s)-1) |-> IF k < i THEN s[k] ELSE s[k+1]]

\* A users_mapping value is either an agent id (under a user key) or a list of
\* user ids (under an agent key).
Str(a) == [kind |-> "str", str |-> a, list |-> <<>>]
List(l) == [kind |-> "list", str |-> None, list |-> l]

IsList(v) == v.kind = "list"

\* Python truthiness of a users_mapping value (or of None).
Truthy(v) == IF v.kind = "list" THEN v.list # <<>> ELSE v.str # None

MapGet(k) == IF k \in DOMAIN users_mapping THEN users_mapping[k] ELSE Str(None)

\* Mutant: the agent's list is extended but the user -> agent entry is not written.
LinkUserListOnly(m, user, agent) ==
    Put(m, agent, List(Append(IF agent \in DOMAIN m THEN m[agent].list ELSE <<>>, user)))

\* users_mapping[user] = agent; users_mapping.setdefault(agent, []).append(user)
LinkUser(m, user, agent) ==
    LET m1 == Put(m, user, Str(agent))
        old == IF agent \in DOMAIN m1 THEN m1[agent].list ELSE <<>>
    IN Put(m1, agent, List(Append(old, user)))

\* if agent in users_mapping and isinstance(..., list): if user in it: remove(user)
UnlinkFromList(m, agent, user) ==
    IF agent \in DOMAIN m /\ IsList(m[agent]) /\ InSeq(m[agent].list, user)
    THEN Put(m, agent, List(RemoveFirst(m[agent].list, user)))
    ELSE m

\* agent_queues.setdefault(domain, deque()).append(agent)
Enqueue(q, domain, agent) ==
    Put(q, domain, Append(IF domain \in DOMAIN q THEN q[domain] ELSE <<>>, agent))

QueueLen(q, domain) == IF domain \in DOMAIN q THEN Len(q[domain]) ELSE 0

\* if domain in agent_queues and agent in agent_queues[domain]: remove(agent)
Dequeue(q, domain, agent) ==
    IF domain \in DOMAIN q /\ InSeq(q[domain], agent)
    THEN Put(q, domain, RemoveFirst(q[domain], agent))
    ELSE q

----------------------------------------------------------------------------
\* Notifications and rooms.

Msg(event, room, data) == [event |-> event, room |-> room, data |-> data]

Broadcast == "*"

Event(op, sid, id, arg, outcome, agent) ==
    [op |-> op, sid |-> sid, id |-> id, arg |-> arg, outcome |-> outcome, agent |-> agent]

\* join_room(room) by connection sid; a connection is always in its own room.
JoinRoom(r, room, sid) ==
    IF room = sid THEN r ELSE [r EXCEPT ![room] = @ \cup {sid}]

\* Connections an emit to `room` reaches.
Members(room) ==
    IF room = Broadcast THEN Sids \ closed
    ELSE (rooms[room] \cup (IF room \in Sids THEN {room} ELSE {})) \ closed

\* Connection ids are fresh per transport connection; the model names them in
\* the order in which the connections of a kind are made.
Rank(sid) ==
    CASE sid \in {"a1", "u1"} -> 1
      [] sid \in {"a2", "u2"} -> 2
      [] OTHER -> 3

SameKind(sid) == IF sid \in AgentSids THEN AgentSids ELSE UserSids

\* A connection can deliver an event: it is not closed, and the connections
\* named before it have been made.
Live(sid) ==
    /\ sid \notin closed
    /\ \A s \in SameKind(sid) : Rank(s) < Rank(sid) => s \in opened

\* The run has handled fewer than n events.
Budget(n) == steps < n

\* One more event is handled, delivered by connection sid.
Handled(sid) ==
    /\ steps' = steps + 1
    /\ opened' = opened \cup {sid}
    /\ inflight' = inflight
    /\ relaying' = relaying

\* One more event is handled whose handler does not read request.sid (or reads
\* it only as the default of a field the client sends): some connection that
\* is up delivers it.
HandledByAny(kind) ==
    /\ (opened \cap kind) \ closed # {}
    /\ steps' = steps + 1
    /\ opened' = opened
    /\ inflight' = inflight
    /\ relaying' = relaying

\* Domain names carry no meaning: the model names "d1" the domain an agent
\* registers in first.
DomainInUse(domain) ==
    domain = "d2" => "d1" \in DOMAIN agent_queues

\* The persistent ids a client can send as old_agent_id / old_user_id: ids the
\* server handed out (they have a durable record) on a connection that has
\* since dropped.
Resumable(table, kind) == (kind \cap DOMAIN table) \cap closed

Init ==
    /\ agents = <<>>
    /\ users_mapping = <<>>
    /\ agent_queues = <<>>
    /\ db_agents = <<>>
    /\ db_users = <<>>
    /\ db_conversations = <<>>
    /\ rooms = [i \in Ids |-> {}]
    /\ opened = {}
    /\ closed = {}
    /\ steps = 0
    /\ inflight = <<>>
    /\ relaying = <<>>
    /\ ended = {}
    /\ appended = <<>>
    /\ ev = Event("init", None, None, None, None, None)
    /\ emitted = <<>>

----------------------------------------------------------------------------
\* register_agent

\* agents[agent_connection_id] = {"status": "online", "domain": domain, ...}
OnlineEntry(domain) == [status |-> "online", domain |-> domain]

\* The stale-queue removal of a re-registration: only when the in-memory
\* registry still knows the agent under a different domain.
LeaveOldQueue(q, id, domain) ==
    LET old_domain == IF id \in DOMAIN agents THEN agents[id].domain ELSE None
    IN IF old_domain # None /\ old_domain # domain /\ old_domain \in DOMAIN q
       THEN Put(q, old_domain, RemoveFirst(q[old_domain], id))
       ELSE q

\* UPDATE agents SET status = 'online', domain = ... WHERE agent_connection_id = id
DbAgentOnline(t, id, domain) ==
    [t EXCEPT ![id] = [@ EXCEPT !.status = "online", !.domain = domain]]

\* INSERT INTO agents (...) VALUES (id, name, domain, 'online', ts); user_count DEFAULT 0
DbAgentInsert(t, id, domain) ==
    Put(t, id, [domain |-> domain, status |-> "online", user_count |-> 0])

\* old_agent_id if old_agent_id is not None else request.sid
AgentIdentity(sid, old) == IF old # None THEN old ELSE sid

RegisterAgent(sid, domain, old) ==
    /\ sid \in AgentSids
    /\ Live(sid)
    /\ Handled(sid)
    /\ DomainInUse(domain)
    /\ IF domain = None
       THEN /\ ev' = Event("register_agent", sid, AgentIdentity(sid, old), domain, "rejected", None)
            /\ emitted' = <<Msg("error", sid, <<>>)>>
            /\ UNCHANGED <<agents, users_mapping, agent_queues, db_agents, db_users,
                           db_conversations, rooms, closed,
                   ended, appended>>
       ELSE LET id == AgentIdentity(sid, old)
                existing == id \in DOMAIN db_agents
                q1 == IF existing THEN LeaveOldQueue(agent_queues, id, domain)
                      ELSE agent_queues
            IN /\ QueueLen(q1, domain) < MaxQueue
               /\ rooms' = JoinRoom(rooms, id, sid)
               /\ db_agents' = IF existing THEN DbAgentOnline(db_agents, id, domain)
                               ELSE DbAgentInsert(db_agents, id, domain)
               /\ agents' = Put(agents, id, OnlineEntry(domain))
               /\ agent_queues' = Enqueue(q1, domain, id)
               /\ ev' = Event("register_agent", sid, id, domain,
                              IF existing THEN "reconnected" ELSE "registered", id)
               /\ emitted' = <<Msg("agent_status", Broadcast, <<"online">>)>>
               /\ UNCHANGED <<users_mapping, db_users, db_conversations, closed, ended, appended>>

----------------------------------------------------------------------------
\* agent_offline

\* UPDATE agents SET status = 'offline' WHERE agent_connection_id = id
DbAgentOffline(t, id) ==
    IF id \in DOMAIN t THEN [t EXCEPT ![id] = [@ EXCEPT !.status = "offline"]] ELSE t

\* domain = agents.get(id, {}).get("domain"); agents.pop(id, None);
\* if domain and id in agent_queues.get(domain, []): remove(id)
OfflineQueues(q, id) ==
    IF id \in DOMAIN agents THEN Dequeue(q, agents[id].domain, id) ELSE q

AgentOffline(agent_id) ==
    /\ HandledByAny(AgentSids)
    /\ db_agents' = DbAgentOffline(db_agents, agent_id)
    /\ agent_queues' = OfflineQueues(agent_queues, agent_id)
    /\ agents' = Del(agents, agent_id)
    /\ ev' = Event("agent_offline", None, agent_id, None, "offline", agent_id)
    /\ emitted' = <<Msg("agent_status", Broadcast, <<"offline">>)>>
    /\ UNCHANGED <<users_mapping, db_users, db_conversations, rooms, closed,
                   ended, appended>>

----------------------------------------------------------------------------
\* The messages column: a transcript is stored as JSON text, here a sequence of
\* characters and tokens.  A message is written  { role " text " }  with the
\* quote and the backslash inside the text escaped by a backslash; a
\* transcript is written  [ message ... ].

Quote == "\""
Backslash == "\\"

\* Mutant: the text is written without escaping.
EscapeNothing(t) == t

\* The escaped characters of a string (json.dumps).
RECURSIVE Escape(_)
Escape(t) ==
    IF t = <<>> THEN <<>>
    ELSE (IF Head(t) \in {Quote, Backslash} THEN <<Backslash, Head(t)>> ELSE <<Head(t)>>)
         \o Escape(Tail(t))

DumpMessage(m) == <<"{", m.sender, Quote>> \o Escape(m.message) \o <<Quote, "}">>

RECURSIVE DumpMessages(_)
DumpMessages(l) == IF l = <<>> THEN <<>> ELSE DumpMessage(Head(l)) \o DumpMessages(Tail(l))

\* json.dumps(messages_list)
Dumps(l) == <<"[">> \o DumpMessages(l) \o <<"]">>

\* The result of a failed parse.
Malformed == [ok |-> FALSE, value |-> <<>>, rest |-> <<>>]

\* Reads a string up to its closing quote; s starts after the opening quote.
RECURSIVE ParseString(_, _)
ParseString(s, acc) ==
    IF s = <<>> THEN Malformed
    ELSE IF Head(s) = Quote THEN [ok |-> TRUE, value |-> acc, rest |-> Tail(s)]
    ELSE IF Head(s) = Backslash
         THEN IF Len(s) < 2 THEN Malformed
              ELSE ParseString(Tail(Tail(s)), Append(acc, s[2]))
    ELSE ParseString(Tail(s), Append(acc, Head(s)))

\* Reads the messages of a transcript up to the closing bracket; s starts after
\* the opening bracket.
RECURSIVE ParseMessages(_, _)
ParseMessages(s, acc) ==
    IF s = <<>> THEN Malformed
    ELSE IF Head(s) = "]"
         THEN IF Len(s) = 1 THEN [ok |-> TRUE, value |-> acc, rest |-> <<>>] ELSE Malformed
    ELSE IF Head(s) = "{" /\ Len(s) >= 3 /\ s[2] \in {"agent", "user"} /\ s[3] = Quote
         THEN LET str == ParseString(SubSeq(s, 4, Len(s)), <<>>)
              IN IF str.ok /\ str.rest # <<>> /\ Head(str.rest) = "}"
                 THEN ParseMessages(Tail(str.rest),
                                    Append(acc, [sender |-> s[2], message |-> str.value]))
                 ELSE Malformed
    ELSE Malformed

\* json.loads(text)
Loads(text) ==
    IF text # <<>> /\ Head(text) = "[" THEN ParseMessages(Tail(text), <<>>) ELSE Malformed

\* try: messages = json.loads(...)  except Exception: messages = []
LoadsOrEmpty(text) == IF Loads(text).ok THEN Loads(text).value ELSE <<>>

----------------------------------------------------------------------------
\* request_live_chat

\* data.get('old_user_id') or request.sid
UserIdentity(sid, old) == IF old # None THEN old ELSE sid

\* SELECT * FROM users WHERE user_connection_id = uid, then
\* SELECT * FROM conversations WHERE user_connection_id = uid AND status = TRUE
ActiveConversation(users, convs, uid) ==
    /\ uid \in DOMAIN users
    /\ uid \in DOMAIN convs
    /\ convs[uid].status = "TRUE"

\* Mutant: the SELECT without its status = 'online' condition.
OnlineAgentsAnyStatus(t, domain) == {a \in DOMAIN t : t[a].domain = domain}

\* SELECT agent_connection_id, user_count FROM agents WHERE domain = d AND status = 'online'
OnlineAgents(t, domain) ==
    {a \in DOMAIN t : t[a].domain = domain /\ t[a].status = "online"}

\* Mutant: the capacity test off by one.
UnderCapacityOffByOne(row) == row.user_count <= MAX_USERS_PER_AGENT

\* agent['user_count'] < MAX_USERS_PER_AGENT
UnderCapacity(row) == row.user_count < MAX_USERS_PER_AGENT

AvailableAgents(t, domain) == {a \in OnlineAgents(t, domain) : UnderCapacity(t[a])}

\* Mutant: the first candidate taken without the sort by user_count.
LeastLoadedUnsorted(t, cands) == cands

\* available_agents.sort(key=user_count); available_agents[0].  The sort is
\* stable and the SELECT has no ORDER BY, so any agent of minimum user_count
\* can be the first row.
LeastLoaded(t, cands) ==
    {a \in cands : \A b \in cands : t[a].user_count <= t[b].user_count}

\* UPDATE agents SET user_count = user_count + 1 WHERE agent_connection_id = a
DbIncrement(t, a) == [t EXCEPT ![a] = [@ EXCEPT !.user_count = @ + 1]]

\* INSERT INTO users: user_connection_id is UNIQUE, agent_connection_id is a
\* FOREIGN KEY into agents (NULL allowed).
UserInsertOk(users, agts, uid, agent) ==
    /\ uid \notin DOMAIN users
    /\ (agent = None \/ agent \in DOMAIN agts)

\* INSERT INTO conversations: user_connection_id is UNIQUE and a FOREIGN KEY
\* into users, agent_connection_id a FOREIGN KEY into agents (NULL allowed).
ConvInsertOk(convs, users, agts, uid, agent) ==
    /\ uid \notin DOMAIN convs
    /\ uid \in DOMAIN users
    /\ (agent = None \/ agent \in DOMAIN agts)

NewConversation(agent) == [agent |-> agent, messages |-> Dumps(<<>>), status |-> "TRUE"]

MapListLen(m, agent) == IF agent \in DOMAIN m THEN Len(m[agent].list) ELSE 0

\* The assignment once the agent is chosen: the UPDATE of user_count, the
\* session-map link, the two INSERTs, the commit and the notifications; or, when
\* an INSERT raises, the rollback get_db_cursor does and the error notification.
Admit(sid, uid, domain, a) ==
    LET agts1 == DbIncrement(db_agents, a)
        ok1 == UserInsertOk(db_users, agts1, uid, a)
        users1 == Put(db_users, uid, [agent |-> a])
        ok2 == ok1 /\ ConvInsertOk(db_conversations, users1, agts1, uid, a)
    IN
    /\ MapListLen(users_mapping, a) < MaxList
    \* the session map is written between the UPDATE and the INSERTs
    /\ users_mapping' = LinkUser(users_mapping, uid, a)
    /\ IF ok2
       THEN /\ db_agents' = agts1
            /\ db_users' = users1
            /\ db_conversations' = Put(db_conversations, uid, NewConversation(a))
            /\ ev' = Event("request_live_chat", sid, uid, domain, "connected", a)
            /\ emitted' = <<Msg("live_chat_connected", uid, <<>>),
                            Msg("new_live_chat", a, <<>>)>>
       ELSE \* the INSERT raises: get_db_cursor rolls the transaction back
            /\ UNCHANGED <<db_agents, db_users, db_conversations>>
            /\ ev' = Event("request_live_chat", sid, uid, domain, "error", a)
            /\ emitted' = <<Msg("error", uid, <<>>)>>

RequestLiveChat(sid, domain, old) ==
    LET uid == UserIdentity(sid, old) IN
    /\ sid \in UserSids
    /\ Live(sid)
    /\ Handled(sid)
    /\ DomainInUse(domain)
    /\ closed' = closed
    /\ IF domain = None
       THEN \* emitted before join_room
            /\ ev' = Event("request_live_chat", sid, uid, domain, "rejected", None)
            /\ emitted' = <<Msg("no_agents_available", uid, <<>>)>>
            /\ UNCHANGED <<agents, users_mapping, agent_queues, db_agents, db_users,
                           db_conversations, rooms>>
       ELSE
       /\ rooms' = JoinRoom(rooms, uid, sid)
       /\ UNCHANGED <<agents, agent_queues>>
       /\ IF ActiveConversation(db_users, db_conversations, uid)
          THEN LET a == db_conversations[uid].agent IN
               /\ MapListLen(users_mapping, a) < MaxList
               /\ users_mapping' = LinkUser(users_mapping, uid, a)
               /\ ev' = Event("request_live_chat", sid, uid, domain, "reconnected", a)
               /\ emitted' = <<Msg("live_chat_reconnected", uid,
                                   LoadsOrEmpty(db_conversations[uid].messages)),
                               Msg("user_reconnected", a, <<>>)>>
               /\ UNCHANGED <<db_agents, db_users, db_conversations>>
          ELSE IF OnlineAgents(db_agents, domain) = {}
          THEN /\ ev' = Event("request_live_chat", sid, uid, domain, "no_agents", None)
               /\ emitted' = <<Msg("no_agents_available", uid, <<>>)>>
               /\ UNCHANGED <<users_mapping, db_agents, db_users, db_conversations>>
          ELSE IF AvailableAgents(db_agents, domain) = {}
          THEN /\ ev' = Event("request_live_chat", sid, uid, domain, "busy", None)
               /\ emitted' = <<Msg("no_agents_available", uid, <<>>)>>
               /\ UNCHANGED <<users_mapping, db_agents, db_users, db_conversations>>
          ELSE \E a \in LeastLoaded(db_agents, AvailableAgents(db_agents, domain)) :
               Admit(sid, uid, domain, a)
    /\ ended' = IF ev'.outcome = "connected" THEN ended \ {uid} ELSE ended
    /\ appended' = appended

----------------------------------------------------------------------------
\* restore_chats

\* The order in which the model lists the rows of a result set.
IdOrder == <<"a1", "a2", "u1", "u2", "u3">>

\* SELECT user_connection_id, messages FROM conversations
\* WHERE agent_connection_id = agent_id AND status = TRUE, each row with its
\* messages decoded (or [] when that raises).
RestoredChats(convs, agent_id) ==
    LET Active(k) == /\ k \in DOMAIN convs
                     /\ convs[k].agent = agent_id
                     /\ convs[k].status = "TRUE"
        keys == SelectSeq(IdOrder, Active)
    IN [i \in 1..Len(keys) |->
          [user |-> keys[i], messages |-> LoadsOrEmpty(convs[keys[i]].messages)]]

\* The handler only reads: it emits restore_active_chats to the connection
\* that asked and writes neither the session map nor any table.
RestoreChats(sid, agent_id) ==
    /\ Live(sid)
    /\ Handled(sid)
    /\ IF agent_id = None
       THEN /\ ev' = Event("restore_chats", sid, agent_id, None, "ignored", None)
            /\ emitted' = <<>>
       ELSE /\ ev' = Event("restore_chats", sid, agent_id, None, "restored", agent_id)
            /\ emitted' = <<Msg("restore_active_chats", sid,
                                RestoredChats(db_conversations, agent_id))>>
    /\ UNCHANGED <<agents, users_mapping, agent_queues, db_agents, db_users,
                   db_conversations, rooms, closed, ended, appended>>

----------------------------------------------------------------------------
\* send_message

\* The characters of a message text; str.strip() drops leading and trailing
\* whitespace.
Texts == {<<"h">>, <<" ", Quote, " ">>}

RECURSIVE LStrip(_)
LStrip(t) == IF t # <<>> /\ Head(t) = " " THEN LStrip(Tail(t)) ELSE t

RECURSIVE RStrip(_)
RStrip(t) == IF t # <<>> /\ t[Len(t)] = " " THEN RStrip(SubSeq(t, 1, Len(t) - 1)) ELSE t

Strip(t) == RStrip(LStrip(t))

\* role = "agent" if persistent_sender in agents else "user"
Role(sender) == IF sender \in DOMAIN agents THEN "agent" ELSE "user"

\* conversation_key = persistent_sender if role == "user" else recipient_id
ConversationKey(sender, recipient) ==
    IF Role(sender) = "user" THEN sender ELSE recipient

NewMessage(sender, text) == [sender |-> Role(sender), message |-> Strip(text)]

\* The identities a connection acts under: its own sid, or a persistent id it
\* registered / requested a chat with (and so joined the room of).
IdentitiesOf(sid) == {sid} \cup {i \in Ids : sid \in rooms[i]}

\* The recipient_id a client can send: an id of the other kind that the server
\* has handed out, that is, of a connection that has been made.
Recipients(sid) == (IF sid \in AgentSids THEN UserSids ELSE AgentSids) \cap opened

\* Mutant: the stored transcript is dropped, as if it never parsed.
ExtendedFromEmpty(text, msg) == Dumps(<<msg>>)

\* messages_list = json.loads(result['messages']) (or [] when that raises);
\* messages_list.append(new_message); json.dumps(messages_list)
Extended(text, msg) == Dumps(Append(LoadsOrEmpty(text), msg))

\* UPDATE conversations SET messages = ... [, agent_connection_id = sender, status = TRUE]
ConvAppend(row, sender, msg) ==
    IF Role(sender) = "agent"
    THEN [agent |-> sender, messages |-> Extended(row.messages, msg), status |-> "TRUE"]
    ELSE [row EXCEPT !.messages = Extended(@, msg)]

\* INSERT INTO conversations (user_connection_id, [agent_connection_id,] messages, last_update [, status])
ConvCreate(sender, msg) ==
    IF Role(sender) = "agent"
    THEN [agent |-> sender, messages |-> Dumps(<<msg>>), status |-> "TRUE"]
    ELSE [agent |-> None, messages |-> Dumps(<<msg>>), status |-> None]

\* The record of what has been relayed, extended by one message.
Recorded(h, key, msg) == Put(h, key, Append(IF key \in DOMAIN h THEN h[key] ELSE <<>>, msg))

SendMessage(sid, sender, recipient, text) ==
    /\ Live(sid)
    /\ Handled(sid)
    /\ sender \in IdentitiesOf(sid)
    /\ UNCHANGED <<agents, users_mapping, agent_queues, db_agents, rooms, closed, ended>>
    /\ IF recipient = None
       THEN /\ ev' = Event("send_message", None, sender, recipient, "dropped", None)
            /\ emitted' = <<>>
            /\ UNCHANGED <<db_users, db_conversations, appended>>
       ELSE LET key == ConversationKey(sender, recipient)
                msg == NewMessage(sender, text)
                known == key \in DOMAIN db_users
                user_agent == IF Role(sender) = "user" THEN sender ELSE None
                ok1 == known \/ UserInsertOk(db_users, db_agents, key, user_agent)
                users1 == IF known THEN db_users ELSE Put(db_users, key, [agent |-> user_agent])
                has == key \in DOMAIN db_conversations
                ok2 == ok1 /\ (has \/ ConvInsertOk(db_conversations, users1, db_agents, key,
                                                   ConvCreate(sender, msg).agent))
            IN /\ has => Len(LoadsOrEmpty(db_conversations[key].messages)) < MaxMsgs
               /\ IF ok2
                  THEN /\ db_users' = users1
                       /\ db_conversations' =
                             IF has
                             THEN [db_conversations EXCEPT ![key] = ConvAppend(@, sender, msg)]
                             ELSE Put(db_conversations, key, ConvCreate(sender, msg))
                       /\ ev' = Event("send_message", None, sender, recipient, "sent", key)
                       /\ emitted' = <<Msg("receive_message", recipient, <<msg.message>>)>>
                       /\ appended' = Recorded(appended, key, msg)
                  ELSE /\ UNCHANGED <<db_users, db_conversations, appended>>
                       /\ ev' = Event("send_message", None, sender, recipient, "error", key)
                       /\ emitted' = <<Msg("error", sender, <<>>)>>

----------------------------------------------------------------------------
\* end_chat

\* UPDATE conversations SET status = FALSE WHERE user_connection_id = uid
DbConvEnd(t, uid) ==
    IF uid \in DOMAIN t THEN [t EXCEPT ![uid] = [@ EXCEPT !.status = "FALSE"]] ELSE t

\* UPDATE agents SET user_count = GREATEST(0, user_count - 1) WHERE agent_connection_id = a
DbDecrement(t, a) ==
    IF a \in DOMAIN t
    THEN [t EXCEPT ![a] = [@ EXCEPT !.user_count = IF @ - 1 > 0 THEN @ - 1 ELSE 0]]
    ELSE t

\* del users_mapping[user]; remove user from users_mapping[agent]
Unlink(m, user, agent) == UnlinkFromList(Del(m, user), agent, user)

EndChat(user) ==
    /\ HandledByAny(Sids)
    /\ UNCHANGED <<agents, agent_queues, db_users, rooms, closed, appended>>
    /\ IF Truthy(MapGet(user))
       THEN LET a == MapGet(user).str IN
            /\ db_conversations' = DbConvEnd(db_conversations, user)
            /\ db_agents' = DbDecrement(db_agents, a)
            /\ users_mapping' = Unlink(users_mapping, user, a)
            /\ ended' = ended \cup {user}
            /\ ev' = Event("end_chat", None, user, None, "ended", a)
            /\ emitted' = <<Msg("chat_ended", a, <<user>>), Msg("chat_ended", user, <<a>>)>>
       ELSE /\ ev' = Event("end_chat", None, user, None, "noop", None)
            /\ emitted' = <<>>
            /\ UNCHANGED <<users_mapping, db_agents, db_conversations, ended>>

----------------------------------------------------------------------------
\* disconnect

\* if sid in agents: ... del agents[sid]; remove sid from its domain queue
DisconnectQueues(q, sid) ==
    IF sid \in DOMAIN agents THEN Dequeue(q, agents[sid].domain, sid) ELSE q

\* UPDATE agents SET status = 'offline' WHERE agent_connection_id = sid, only
\* when sid is a key of the in-memory registry
DisconnectDbAgents(t, sid) ==
    IF sid \in DOMAIN agents THEN DbAgentOffline(t, sid) ELSE t

\* partner_id = users_mapping.pop(sid, None); for a user key the agent's list
\* loses one occurrence of sid
DisconnectMapping(m, sid) ==
    LET partner == IF sid \in DOMAIN m THEN m[sid] ELSE Str(None)
        m1 == Del(m, sid)
    IN IF Truthy(partner) /\ ~IsList(partner)
       THEN UnlinkFromList(m1, partner.str, sid)
       ELSE m1

\* `partner_id in users_mapping` with partner_id a non-empty list raises
\* TypeError (unhashable type): the handler ends there.
DisconnectRaises(m, sid) ==
    sid \in DOMAIN m /\ IsList(m[sid]) /\ Truthy(m[sid])

\* close_room(sid) empties the room named sid; the closing connection leaves
\* every room with its transport.
LeaveRooms(r, sid, close) ==
    [i \in Ids |-> IF i = sid /\ close THEN {} ELSE r[i] \ {sid}]

Disconnect(sid) ==
    LET partner == MapGet(sid)
        raises == DisconnectRaises(users_mapping, sid)
        status == IF sid \in DOMAIN agents
                  THEN <<Msg("agent_status", Broadcast, <<"offline">>)>> ELSE <<>>
        bye == IF Truthy(partner) /\ ~raises
               THEN <<Msg("chat_ended", partner.str, <<sid>>)>> ELSE <<>>
    IN
    /\ sid \in opened \ closed
    /\ steps' = steps + 1
    /\ opened' = opened
    /\ inflight' = inflight
    /\ relaying' = relaying
    /\ agents' = Del(agents, sid)
    /\ agent_queues' = DisconnectQueues(agent_queues, sid)
    /\ db_agents' = DisconnectDbAgents(db_agents, sid)
    /\ users_mapping' = DisconnectMapping(users_mapping, sid)
    /\ rooms' = LeaveRooms(rooms, sid, ~raises)
    /\ closed' = closed \cup {sid}
    /\ ev' = Event("disconnect", sid, sid, None, IF raises THEN "raised" ELSE "done",
                   IF sid \in DOMAIN agents THEN sid ELSE None)
    /\ emitted' = status \o bye
    /\ UNCHANGED <<db_users, db_conversations, ended, appended>>

----------------------------------------------------------------------------

Next ==
    \/ /\ Budget(MaxSteps)
       /\ \E sid \in AgentSids, domain \in Domains \cup {None},
             old \in {None} \cup Resumable(db_agents, AgentSids) :
             RegisterAgent(sid, domain, old)
    \/ /\ Budget(MaxSteps)
       /\ \E agent_id \in AgentSids : AgentOffline(agent_id)
    \/ /\ Budget(MaxSteps)
       /\ \E sid \in UserSids, domain \in Domains \cup {None},
             old \in {None} \cup Resumable(db_users, UserSids) :
             RequestLiveChat(sid, domain, old)
    \/ /\ Budget(MaxSteps)
       /\ \E sid \in Sids, sender \in Ids, text \in Texts :
             \E recipient \in Recipients(sid) \cup {None} :
                SendMessage(sid, sender, recipient, text)
    \/ /\ Budget(MaxSteps)
       /\ \E user \in UserSids : EndChat(user)
    \/ /\ Budget(MaxSteps)
       /\ \E sid \in Sids : Disconnect(sid)
    \/ /\ Budget(MaxSteps)
       /\ \E sid \in AgentSids :
             \E agent_id \in (IdentitiesOf(sid) \cap DOMAIN db_agents) \cup {None} :
                RestoreChats(sid, agent_id)

Spec == Init /\ [][Next]_vars

----------------------------------------------------------------------------
\* request_live_chat run concurrently with other handlers.  Each handler has a
\* database connection and transaction of its own (get_db_cursor); nothing in
\* the handler locks the rows it has read, so another handler can run between
\* the SELECT of the agents' user_count and the UPDATE that increments one.

\* The handler up to the choice of assigned_agent, for a user without an
\* active session in a domain with an agent under capacity.
RlcSelect(sid, domain, old) ==
    LET uid == UserIdentity(sid, old) IN
    /\ sid \in UserSids
    /\ Live(sid)
    /\ sid \notin DOMAIN inflight
    /\ Cardinality(DOMAIN inflight) < MaxInflight
    /\ domain # None
    /\ DomainInUse(domain)
    /\ ~ActiveConversation(db_users, db_conversations, uid)
    /\ steps' = steps + 1
    /\ opened' = opened \cup {sid}
    /\ rooms' = JoinRoom(rooms, uid, sid)
    /\ \E a \in LeastLoaded(db_agents, AvailableAgents(db_agents, domain)) :
          /\ inflight' = Put(inflight, sid, [uid |-> uid, domain |-> domain, agent |-> a])
          /\ ev' = Event("request_live_chat", sid, uid, domain, "selected", a)
    /\ emitted' = <<>>
    /\ UNCHANGED <<agents, users_mapping, agent_queues, db_agents, db_users,
                   db_conversations, closed, ended, relaying, appended>>

\* The rest of the handler: UPDATE user_count = user_count + 1 acts on the
\* row as it is now, not as it was read.
RlcCommit(sid) ==
    /\ sid \in DOMAIN inflight
    /\ Admit(sid, inflight[sid].uid, inflight[sid].domain, inflight[sid].agent)
    /\ inflight' = Del(inflight, sid)
    /\ ended' = IF ev'.outcome = "connected" THEN ended \ {inflight[sid].uid} ELSE ended
    /\ UNCHANGED <<agents, agent_queues, rooms, opened, closed, steps, relaying, appended>>

NextConc ==
    \/ /\ Budget(MaxSteps)
       /\ \E sid \in AgentSids, domain \in Domains : RegisterAgent(sid, domain, None)
    \/ /\ Budget(MaxSteps)
       /\ \E sid \in UserSids, domain \in Domains : RlcSelect(sid, domain, None)
    \/ \E sid \in UserSids : RlcCommit(sid)
    \/ /\ Budget(MaxSteps)
       /\ \E user \in UserSids : EndChat(user)

SpecConc == Init /\ [][NextConc]_vars

----------------------------------------------------------------------------
\* send_message run concurrently with another send_message.  The handler reads
\* the stored transcript with a plain SELECT (no FOR UPDATE), extends the list
\* in Python and writes the whole list back; each handler has a transaction of
\* its own, so another handler can read or commit between the two statements.

\* The handler up to json.loads of the row it found, for a message with a
\* recipient to a conversation that has a row.
SmRead(sid, sender, recipient, text) ==
    LET key == ConversationKey(sender, recipient) IN
    /\ Live(sid)
    /\ sid \notin DOMAIN relaying
    /\ Cardinality(DOMAIN relaying) < MaxInflight
    /\ sender \in IdentitiesOf(sid)
    /\ key \in DOMAIN db_users
    /\ key \in DOMAIN db_conversations
    /\ Len(LoadsOrEmpty(db_conversations[key].messages)) < MaxMsgs
    /\ steps' = steps + 1
    /\ opened' = opened \cup {sid}
    /\ relaying' = Put(relaying, sid,
                       [sender |-> sender, recipient |-> recipient, key |-> key,
                        role |-> Role(sender), msg |-> NewMessage(sender, text),
                        messages_list |-> LoadsOrEmpty(db_conversations[key].messages)])
    /\ ev' = Event("send_message", None, sender, recipient, "read", key)
    /\ emitted' = <<>>
    /\ UNCHANGED <<agents, users_mapping, agent_queues, db_agents, db_users,
                   db_conversations, rooms, closed, inflight, ended, appended>>

\* The rest of the handler: the list read earlier, with the new message
\* appended, replaces the stored transcript whatever it is by now; then the
\* commit and the receive_message emit.
SmWrite(sid) ==
    /\ sid \in DOMAIN relaying
    /\ LET h == relaying[sid]
           text == Dumps(Append(h.messages_list, h.msg))
       IN /\ db_conversations' =
                [db_conversations EXCEPT ![h.key] =
                    IF h.role = "agent"
                    THEN [agent |-> h.sender, messages |-> text, status |-> "TRUE"]
                    ELSE [@ EXCEPT !.messages = text]]
          /\ ev' = Event("send_message", None, h.sender, h.recipient, "sent", h.key)
          /\ emitted' = <<Msg("receive_message", h.recipient, <<h.msg.message>>)>>
    /\ relaying' = Del(relaying, sid)
    /\ appended' = Recorded(appended, relaying[sid].key, relaying[sid].msg)
    /\ UNCHANGED <<agents, users_mapping, agent_queues, db_agents, db_users, rooms,
                   opened, closed, steps, inflight, ended>>

NextRelay ==
    \/ /\ Budget(MaxSteps)
       /\ \E sid \in AgentSids, domain \in Domains : RegisterAgent(sid, domain, None)
    \/ /\ Budget(MaxSteps)
       /\ \E sid \in UserSids, domain \in Domains : RequestLiveChat(sid, domain, None)
    \/ /\ Budget(MaxSteps)
       /\ \E sid \in Sids, sender \in Ids, text \in Texts :
             \E recipient \in Recipients(sid) : SmRead(sid, sender, recipient, text)
    \/ \E sid \in Sids : SmWrite(sid)

SpecRelay == Init /\ [][NextRelay]_vars

----------------------------------------------------------------------------
\* Longer runs of the session life cycle alone: one agent connection, one
\* domain, users that do not resume, handlers run one after the other.

NextSessions ==
    \/ /\ Budget(MaxDeepSteps)
       /\ RegisterAgent("a1", "d1", None)
    \/ /\ Budget(MaxDeepSteps)
       /\ \E sid \in UserSids : RequestLiveChat(sid, "d1", None)
    \/ /\ Budget(MaxDeepSteps)
       /\ \E user \in UserSids : EndChat(user)

SpecSessions == Init /\ [][NextSessions]_vars

----------------------------------------------------------------------------
\* Durable writes that fail.  The offline transitions wrap their UPDATE in a
\* try/except that logs and goes on: when get_db_cursor or the UPDATE raises
\* (connection lost, lock wait timeout), the agents row keeps its status while
\* the in-memory registry and queue are still changed.

\* agent_offline whose UPDATE raises: step 1 is skipped, steps 2 and 3 run.
AgentOfflineDbError(agent_id) ==
    /\ HandledByAny(AgentSids)
    /\ agent_queues' = OfflineQueues(agent_queues, agent_id)
    /\ agents' = Del(agents, agent_id)
    /\ ev' = Event("agent_offline", None, agent_id, None, "db_error", agent_id)
    /\ emitted' = <<Msg("agent_status", Broadcast, <<"offline">>)>>
    /\ UNCHANGED <<db_agents, users_mapping, db_users, db_conversations, rooms, closed,
                   ended, appended>>

\* disconnect of a registered agent's connection whose UPDATE raises: the
\* registry and queue are changed, the agent_status emit inside the try is
\* skipped, and the handler goes on with the session-map part.
DisconnectDbError(sid) ==
    LET raises == DisconnectRaises(users_mapping, sid) IN
    /\ sid \in opened \ closed
    /\ sid \in DOMAIN agents
    /\ steps' = steps + 1
    /\ opened' = opened
    /\ inflight' = inflight
    /\ relaying' = relaying
    /\ agents' = Del(agents, sid)
    /\ agent_queues' = DisconnectQueues(agent_queues, sid)
    /\ users_mapping' = DisconnectMapping(users_mapping, sid)
    /\ rooms' = LeaveRooms(rooms, sid, ~raises)
    /\ closed' = closed \cup {sid}
    /\ ev' = Event("disconnect", sid, sid, None, IF raises THEN "raised" ELSE "db_error", sid)
    /\ emitted' = <<>>
    /\ UNCHANGED <<db_agents, db_users, db_conversations, ended, appended>>

NextFaults ==
    \/ /\ Budget(MaxSteps)
       /\ \E sid \in AgentSids, domain \in Domains,
             old \in {None} \cup Resumable(db_agents, AgentSids) :
             RegisterAgent(sid, domain, old)
    \/ /\ Budget(MaxSteps)
       /\ \E agent_id \in AgentSids : AgentOffline(agent_id)
    \/ /\ Budget(MaxSteps)
       /\ \E agent_id \in AgentSids : AgentOfflineDbError(agent_id)
    \/ /\ Budget(MaxSteps)
       /\ \E sid \in UserSids, domain \in Domains : RequestLiveChat(sid, domain, None)
    \/ /\ Budget(MaxSteps)
       /\ \E sid \in Sids : Disconnect(sid)
    \/ /\ Budget(MaxSteps)
       /\ \E sid \in AgentSids : DisconnectDbError(sid)

SpecFaults == Init /\ [][NextFaults]_vars

----------------------------------------------------------------------------
\* Recovery after a process restart.  The module-level dicts start empty in the
\* new process, every connection of the old process is gone without its
\* disconnect handler having run, and the tables are kept (CREATE TABLE IF NOT
\* EXISTS).

Restart ==
    /\ opened \ closed # {}
    /\ steps' = steps + 1
    /\ agents' = <<>>
    /\ users_mapping' = <<>>
    /\ agent_queues' = <<>>
    /\ rooms' = [i \in Ids |-> {}]
    /\ closed' = opened
    /\ inflight' = <<>>
    /\ relaying' = <<>>
    /\ ev' = Event("restart", None, None, None, "restarted", None)
    /\ emitted' = <<>>
    /\ UNCHANGED <<db_agents, db_users, db_conversations, opened, ended, appended>>

\* One domain, so that runs can be longer.
NextRecovery ==
    \/ /\ Budget(MaxDeepSteps)
       /\ \E sid \in AgentSids, old \in {None} \cup Resumable(db_agents, AgentSids) :
             RegisterAgent(sid, "d1", old)
    \/ /\ Budget(MaxDeepSteps)
       /\ \E sid \in UserSids, old \in {None} \cup Resumable(db_users, UserSids) :
             RequestLiveChat(sid, "d1", old)
    \/ /\ Budget(MaxDeepSteps)
       /\ \E sid \in Sids, sender \in Ids, text \in Texts :
             \E recipient \in Recipients(sid) :
                SendMessage(sid, sender, recipient, text)
    \/ /\ Budget(MaxDeepSteps)
       /\ \E user \in UserSids : EndChat(user)
    \/ /\ Budget(MaxDeepSteps)
       /\ \E sid \in Sids : Disconnect(sid)
    \/ /\ Budget(MaxDeepSteps)
       /\ \E sid \in AgentSids :
             \E agent_id \in IdentitiesOf(sid) \cap DOMAIN db_agents :
                RestoreChats(sid, agent_id)
    \/ /\ Budget(MaxDeepSteps)
       /\ Restart

SpecRecovery == Init /\ [][NextRecovery]_vars

\* Restart as the only way a connection ends: the session map loses a link
\* only to end_chat or to the restart.
NextRestart ==
    \/ /\ Budget(MaxDeepSteps)
       /\ \E sid \in AgentSids, old \in {None} \cup Resumable(db_agents, AgentSids) :
             RegisterAgent(sid, "d1", old)
    \/ /\ Budget(MaxDeepSteps)
       /\ \E sid \in UserSids, old \in {None} \cup Resumable(db_users, UserSids) :
             RequestLiveChat(sid, "d1", old)
    \/ /\ Budget(MaxDeepSteps)
       /\ \E user \in UserSids : EndChat(user)
    \/ /\ Budget(MaxDeepSteps)
       /\ \E sid \in AgentSids :
             \E agent_id \in IdentitiesOf(sid) \cap DOMAIN db_agents :
                RestoreChats(sid, agent_id)
    \/ /\ Budget(MaxDeepSteps)
       /\ Restart

SpecRestart == Init /\ [][NextRestart]_vars

----------------------------------------------------------------------------
\* Properties.

\* Connections an emit to `room` reaches, in given rooms and closed sets.
MembersIn(r, c, room) == (r[room] \cup {room}) \ c

\* The user identity has an active session: a conversation with status TRUE.
HasActiveSession(uid) ==
    uid \in DOMAIN db_conversations /\ db_conversations[uid].status = "TRUE"

\* The agents of a domain that are recorded online and are under capacity.
Eligible(domain) ==
    {a \in DOMAIN db_agents : /\ db_agents[a].status = "online"
                              /\ db_agents[a].domain = domain
                              /\ db_agents[a].user_count < MAX_USERS_PER_AGENT}

\* The agent identities registered on a connection: its own sid or an
\* old_agent_id it resumed (register_agent joins the room of the identity).
RegisteredOn(sid) ==
    IF sid \in AgentSids THEN IdentitiesOf(sid) \cap DOMAIN db_agents ELSE {}

Emits(msgs, event, room) == \E i \in 1..Len(msgs) : msgs[i].event = event /\ msgs[i].room = room

\* C1: with handlers run to completion one after the other, every agent's
\* durable user_count is at most MAX_USERS_PER_AGENT in every reachable state.
C1_UserCountWithinCapacity ==
    \A a \in DOMAIN db_agents : db_agents[a].user_count <= MAX_USERS_PER_AGENT

\* An admission has just filled an agent to MAX_USERS_PER_AGENT.
C1_Witness ==
    /\ ev.op = "request_live_chat"
    /\ ev.outcome = "connected"
    /\ db_agents[ev.agent].user_count = MAX_USERS_PER_AGENT

\* C2: when request_live_chat handlers interleave between the SELECT of the
\* agents' user_count and the UPDATE user_count + 1, no agent's user_count
\* ever exceeds MAX_USERS_PER_AGENT.
C2_ConcurrentAdmissionsWithinCapacity ==
    \A a \in DOMAIN db_agents : ~(db_agents[a].user_count > MAX_USERS_PER_AGENT)

\* C3: an admission of a user without an active session picks an agent that is
\* recorded online in the requested domain, was under capacity, had the least
\* user_count among such agents, and raises that agent's user_count by exactly
\* one and no other agent's.
C3_AdmissionPicksLeastLoaded ==
    [][(ev'.op = "request_live_chat" /\ ev'.outcome = "connected") =>
         LET a == ev'.agent
             d == ev'.arg
         IN /\ ~HasActiveSession(ev'.id)
            /\ a \in Eligible(d)
            /\ \A b \in Eligible(d) : db_agents[a].user_count <= db_agents[b].user_count
            /\ DOMAIN db_agents' = DOMAIN db_agents
            /\ db_agents'[a].user_count = db_agents[a].user_count + 1
            /\ \A b \in DOMAIN db_agents \ {a} : db_agents'[b] = db_agents[b]
      ]_vars

\* An admission has been made while another agent of the domain, also online
\* and under capacity, carried more users than the chosen one did.
C3_Witness ==
    /\ ev.op = "request_live_chat"
    /\ ev.outcome = "connected"
    /\ \E b \in DOMAIN db_agents \ {ev.agent} :
          /\ db_agents[b].status = "online"
          /\ db_agents[b].domain = ev.arg
          /\ db_agents[b].user_count < MAX_USERS_PER_AGENT
          /\ db_agents[b].user_count > db_agents[ev.agent].user_count - 1

\* C4: a request_live_chat (with a domain) of an identity that has an active
\* session restores it: the outcome is a reconnection to the session's recorded
\* agent, the session map links the user to that agent in both directions, and
\* no durable record changes (no user_count, no session); a request that
\* directly follows a request of the same identity names the same agent.
C4_ResumeRestoresSession ==
    [][(ev'.op = "request_live_chat" /\ ev'.arg # None /\ HasActiveSession(ev'.id)) =>
         LET uid == ev'.id
             a == db_conversations[uid].agent
         IN /\ ev'.outcome = "reconnected"
            /\ ev'.agent = a
            /\ uid \in DOMAIN users_mapping'
            /\ users_mapping'[uid] = Str(a)
            /\ a \in DOMAIN users_mapping'
            /\ InSeq(users_mapping'[a].list, uid)
            /\ db_agents' = db_agents
            /\ db_users' = db_users
            /\ db_conversations' = db_conversations
            /\ (ev.op = "request_live_chat" /\ ev.id = uid
                  /\ ev.outcome \in {"connected", "reconnected"}) => ev.agent = a
      ]_vars

\* A session has been restored with an agent that is recorded offline.
C4_Witness ==
    /\ ev.op = "request_live_chat"
    /\ ev.outcome = "reconnected"
    /\ db_agents[ev.agent].status = "offline"

\* C5: a request_live_chat (with a domain) of an identity without an active
\* session, in a domain with an online agent under capacity, ends with an active
\* session with an empty transcript, a session-map link in both directions and
\* live_chat_connected sent to the user.
C5_RequestWithoutSessionIsAdmitted ==
    [][(ev'.op = "request_live_chat" /\ ev'.arg # None /\ ev'.outcome # "selected"
          /\ ~HasActiveSession(ev'.id) /\ Eligible(ev'.arg) # {}) =>
         LET uid == ev'.id
         IN /\ uid \in DOMAIN db_conversations'
            /\ db_conversations'[uid].status = "TRUE"
            /\ Loads(db_conversations'[uid].messages) = [ok |-> TRUE, value |-> <<>>, rest |-> <<>>]
            /\ uid \in DOMAIN users_mapping'
            /\ users_mapping'[uid] = Str(db_conversations'[uid].agent)
            /\ db_conversations'[uid].agent \in DOMAIN users_mapping'
            /\ InSeq(users_mapping'[db_conversations'[uid].agent].list, uid)
            /\ Emits(emitted', "live_chat_connected", uid)
      ]_vars

\* C6: a request_live_chat (with a domain, no active session) that finds no
\* online agent of the domain under capacity sends the requesting connection
\* no_agents_available and changes no durable record, no session-map entry, no
\* registry entry and no queue.
C6_NoAgentLeavesStateUnchanged ==
    [][(ev'.op = "request_live_chat" /\ ev'.arg # None
          /\ ~HasActiveSession(ev'.id) /\ Eligible(ev'.arg) = {}) =>
         /\ emitted' = <<Msg("no_agents_available", ev'.id, <<>>)>>
         /\ ev'.sid \in MembersIn(rooms', closed', ev'.id)
         /\ UNCHANGED <<db_agents, db_users, db_conversations, users_mapping,
                        agents, agent_queues>>
      ]_vars

\* A request has been turned away because every online agent of the domain was
\* at MAX_USERS_PER_AGENT.
C6_Witness ==
    /\ ev.op = "request_live_chat"
    /\ ev.outcome = "busy"
    /\ \E a \in DOMAIN db_agents :
          /\ db_agents[a].status = "online"
          /\ db_agents[a].domain = ev.arg
          /\ db_agents[a].user_count = MAX_USERS_PER_AGENT

\* C7: end_chat(u) for a user u with a session-map entry u -> a leaves u's
\* session inactive, a's user_count at max(0, previous - 1), no session-map
\* entry for u, no occurrence of u in a's list, and sends chat_ended to both.
C7_EndChatClosesSession ==
    [][(ev'.op = "end_chat" /\ ev'.id \in DOMAIN users_mapping) =>
         LET u == ev'.id
             a == users_mapping[u].str
             prev == db_agents[a].user_count
         IN /\ u \in DOMAIN db_conversations'
            /\ db_conversations'[u].status = "FALSE"
            /\ db_agents'[a].user_count = (IF prev - 1 > 0 THEN prev - 1 ELSE 0)
            /\ u \notin DOMAIN users_mapping'
            /\ a \in DOMAIN users_mapping' => ~InSeq(users_mapping'[a].list, u)
            /\ Emits(emitted', "chat_ended", u)
            /\ Emits(emitted', "chat_ended", a)
      ]_vars

\* C8: end_chat(u) for a user without a session-map entry changes nothing and
\* emits nothing; a second end_chat(u) in a row changes nothing; and end_chat
\* lowers an agent's user_count at most once per admitted session.
C8_EndChatIdempotent ==
    [][ev'.op = "end_chat" =>
         /\ (ev'.id \notin DOMAIN users_mapping \/ (ev.op = "end_chat" /\ ev.id = ev'.id)) =>
               /\ emitted' = <<>>
               /\ UNCHANGED <<db_agents, db_users, db_conversations, users_mapping,
                              agents, agent_queues, rooms>>
         /\ db_agents' # db_agents => ev'.id \notin ended
      ]_vars

\* C9: after the disconnect of a connection on which an agent registered (under
\* its own sid or a resumed old_agent_id), that agent is offline in the registry
\* and in the durable store and in no domain queue, and every session keeps its
\* active flag.
C9_DisconnectTakesAgentOffline ==
    [][ev'.op = "disconnect" =>
         /\ \A id \in RegisteredOn(ev'.sid) :
               /\ id \notin DOMAIN agents'
               /\ db_agents'[id].status = "offline"
               /\ \A d \in DOMAIN agent_queues' : ~InSeq(agent_queues'[d], id)
         /\ \A u \in DOMAIN db_conversations :
               db_conversations'[u].status = db_conversations[u].status
      ]_vars

\* C10: the disconnect of an agent that has assigned users leaves users_mapping
\* as it was, completes, and sends no chat_ended.
C10_AgentDisconnectKeepsSessionMap ==
    [][(ev'.op = "disconnect"
          /\ \E id \in RegisteredOn(ev'.sid) :
                id \in DOMAIN users_mapping /\ users_mapping[id].list # <<>>) =>
         /\ users_mapping' = users_mapping
         /\ ev'.outcome = "done"
         /\ \A i \in 1..Len(emitted') : emitted'[i].event # "chat_ended"
      ]_vars

\* The user identities a connection requested a chat under: its own sid or an
\* old_user_id it resumed (request_live_chat joins the room of the identity).
RequestedOn(sid) ==
    IF sid \in UserSids THEN IdentitiesOf(sid) \cap UserSids ELSE {}

\* C11: the disconnect of a user's connection, for each identity the connection
\* holds a session-map link under (its own sid or a resumed old_user_id), keeps
\* the session's active flag and every user_count, removes the link in both
\* directions and sends the agent chat_ended; a later request_live_chat of an
\* identity with an active session resumes it with the session's agent.
C11_UserDisconnectUnlinksSession ==
    [][(ev'.op = "disconnect" =>
          \A uid \in RequestedOn(ev'.sid) \cap DOMAIN users_mapping :
             LET a == users_mapping[uid].str
             IN /\ db_conversations' = db_conversations
                /\ db_agents' = db_agents
                /\ uid \notin DOMAIN users_mapping'
                /\ a \in DOMAIN users_mapping' => ~InSeq(users_mapping'[a].list, uid)
                /\ Emits(emitted', "chat_ended", a))
       /\ ((ev'.op = "request_live_chat" /\ ev'.arg # None /\ HasActiveSession(ev'.id)) =>
             (ev'.outcome = "reconnected" /\ ev'.agent = db_conversations[ev'.id].agent))
      ]_vars

\* The number of times an agent occurs in the queue of a domain.
Occurrences(q, domain, a) == IF domain \in DOMAIN q THEN Count(q[domain], a) ELSE 0

\* C12: in every reachable state an agent is in the queue of a domain exactly
\* when the in-memory registry has it online with that domain, and it occurs at
\* most once over all domain queues.
C12_QueueMirrorsRegistry ==
    \A a \in AgentSids :
       /\ \A d \in Domains :
             Occurrences(agent_queues, d, a) > 0 <=>
                (a \in DOMAIN agents /\ agents[a].status = "online" /\ agents[a].domain = d)
       /\ Occurrences(agent_queues, "d1", a) + Occurrences(agent_queues, "d2", a) <= 1

\* C13: an agent that agent_offline or its disconnect has taken out of the
\* registry is admitted no new user until it registers again (registration is
\* the only step that puts it back), also when the UPDATE that records the
\* offline status fails.
C13_OfflineAgentGetsNoAdmission ==
    [][(ev'.op = "request_live_chat" /\ ev'.outcome = "connected") =>
          ev'.agent \in DOMAIN agents
      ]_vars

\* The position of an agent's first occurrence in the queue of a domain; 0 when
\* it is not in the queue.
QueuePosition(q, domain, a) ==
    IF domain \in DOMAIN q /\ InSeq(q[domain], a)
    THEN CHOOSE j \in 1..Len(q[domain]) :
            q[domain][j] = a /\ \A k \in 1..(j-1) : q[domain][k] # a
    ELSE 0

\* C14: an admission picks, among the online under-capacity agents of the
\* domain that share the least user_count, the one enqueued earliest in the
\* domain's queue.
C14_TieBrokenByQueueOrder ==
    [][(ev'.op = "request_live_chat" /\ ev'.outcome = "connected") =>
         LET a == ev'.agent
             d == ev'.arg
             tied == {b \in Eligible(d) : db_agents[b].user_count = db_agents[a].user_count}
         IN \A b \in tied :
               QueuePosition(agent_queues, d, b) > 0 =>
                  /\ QueuePosition(agent_queues, d, a) > 0
                  /\ QueuePosition(agent_queues, d, a) <= QueuePosition(agent_queues, d, b)
      ]_vars

\* The keys of the users and conversations tables that are agent identities.
AgentKeyed(users, convs, agts) == (DOMAIN users \cup DOMAIN convs) \cap DOMAIN agts

\* C15: a send_message that records its message gives it the role agent and the
\* recipient's transcript when the sender has an agents row, the role user and
\* the sender's transcript otherwise; and no step creates a users or
\* conversations row keyed by an agent identity.
C15_RoleFollowsAgentRecord ==
    [][/\ (ev'.op = "send_message" /\ ev'.outcome = "sent") =>
            LET sender == ev'.id
                isAgent == sender \in DOMAIN db_agents
                key == IF isAgent THEN ev'.arg ELSE sender
                recorded == LoadsOrEmpty(db_conversations'[key].messages)
            IN /\ key \in DOMAIN db_conversations'
               /\ recorded # <<>>
               /\ recorded[Len(recorded)].sender = (IF isAgent THEN "agent" ELSE "user")
       /\ AgentKeyed(db_users', db_conversations', db_agents')
             \subseteq AgentKeyed(db_users, db_conversations, db_agents)
      ]_vars

\* The transcript a reader of the conversations row of `key` gets.
Transcript(convs, key) == LoadsOrEmpty(convs[key].messages)

IsPrefix(s, t) == Len(s) <= Len(t) /\ SubSeq(t, 1, Len(s)) = s

\* C16: transcripts are append-only.  In every step each stored transcript is a
\* prefix of what it is afterwards; a send_message that succeeds makes the
\* transcript of its conversation exactly one message longer, forwards that
\* message's text to the recipient as receive_message and leaves the
\* other transcripts alone; any other step leaves every transcript as it was
\* and creates only empty ones.
C16_TranscriptAppendOnly ==
    [][/\ \A key \in DOMAIN db_conversations :
             /\ key \in DOMAIN db_conversations'
             /\ IsPrefix(Transcript(db_conversations, key), Transcript(db_conversations', key))
       /\ IF ev'.op = "send_message" /\ ev'.outcome = "sent"
          THEN LET key == ev'.agent
                   old == IF key \in DOMAIN db_conversations
                          THEN Transcript(db_conversations, key) ELSE <<>>
                   new == Transcript(db_conversations', key)
               IN /\ Len(new) = Len(old) + 1
                  /\ emitted' = <<Msg("receive_message", ev'.arg, <<new[Len(new)].message>>)>>
                  /\ \A k \in DOMAIN db_conversations' \ {key} :
                        /\ k \in DOMAIN db_conversations
                        /\ db_conversations'[k].messages = db_conversations[k].messages
          ELSE \A k \in DOMAIN db_conversations' :
                  IF k \in DOMAIN db_conversations
                  THEN db_conversations'[k].messages = db_conversations[k].messages
                  ELSE Transcript(db_conversations', k) = <<>>
      ]_vars

\* A message has been appended to a transcript that already held a different
\* message.
C16_Witness ==
    /\ ev.op = "send_message"
    /\ ev.outcome = "sent"
    /\ Len(Transcript(db_conversations, ev.agent)) = 2
    /\ Transcript(db_conversations, ev.agent)[1] # Transcript(db_conversations, ev.agent)[2]

\* C17: when send_message handlers interleave between reading the stored
\* transcript and writing back the extended one, every message that is written
\* and delivered extends the durable transcript as it stands: the transcript
\* after the write is the transcript before it followed by the delivered
\* message, so that all delivered messages are kept, in delivery order.
C17_ConcurrentMessagesAllKept ==
    [][(ev'.op = "send_message" /\ ev'.outcome = "sent") =>
         LET key == ev'.agent
             new == Transcript(db_conversations', key)
         IN /\ IsPrefix(Transcript(db_conversations, key), new)
            /\ Len(new) = Len(Transcript(db_conversations, key)) + 1
            /\ emitted' = <<Msg("receive_message", ev'.arg, <<new[Len(new)].message>>)>>
      ]_vars

\* The messages send_message has recorded for a conversation key, in order.
Appended(key) == IF key \in DOMAIN appended THEN appended[key] ELSE <<>>

\* C18: every message send_message has recorded for a conversation comes back,
\* in the order of recording, from restore_chats of the conversation's agent
\* and from a resuming request_live_chat of its user, while the conversation is
\* active; restore_chats answers the connection that asked.
C18_RecoveryReturnsTranscript ==
    [][/\ (ev'.op = "restore_chats" /\ ev'.outcome = "restored") =>
            /\ Len(emitted') = 1
            /\ emitted'[1].event = "restore_active_chats"
            /\ emitted'[1].room = ev'.sid
            /\ \A key \in DOMAIN db_conversations :
                  (db_conversations[key].status = "TRUE"
                     /\ db_conversations[key].agent = ev'.id) =>
                     \E i \in 1..Len(emitted'[1].data) :
                        /\ emitted'[1].data[i].user = key
                        /\ emitted'[1].data[i].messages = Appended(key)
       /\ (ev'.op = "request_live_chat" /\ ev'.outcome = "reconnected") =>
            emitted'[1] = Msg("live_chat_reconnected", ev'.id, Appended(ev'.id))
      ]_vars

\* restore_chats, asked on a later connection of an agent that resumed its
\* identity, has returned a transcript holding a message with a quote in it.
C18_Witness ==
    /\ ev.op = "restore_chats"
    /\ ev.outcome = "restored"
    /\ ev.sid # ev.id
    /\ \E i \in 1..Len(emitted[1].data) :
          \E j \in 1..Len(emitted[1].data[i].messages) :
             emitted[1].data[i].messages[j].message = <<Quote>>

\* C19: after restore_chats for an agent the session map links, in both
\* directions, every active session of that agent, so that an end_chat(u) that
\* follows for such a session marks it inactive and lowers the agent's
\* user_count by one (not below 0).
C19_RestoreRebuildsSessionMap ==
    [][/\ (ev'.op = "restore_chats" /\ ev'.outcome = "restored") =>
            \A u \in DOMAIN db_conversations :
               (db_conversations[u].status = "TRUE" /\ db_conversations[u].agent = ev'.id) =>
                  /\ u \in DOMAIN users_mapping'
                  /\ users_mapping'[u] = Str(ev'.id)
                  /\ ev'.id \in DOMAIN users_mapping'
                  /\ InSeq(users_mapping'[ev'.id].list, u)
       /\ (ev'.op = "end_chat" /\ ev.op = "restore_chats" /\ ev.outcome = "restored"
              /\ HasActiveSession(ev'.id) /\ db_conversations[ev'.id].agent = ev.id) =>
            LET prev == db_agents[ev.id].user_count
            IN /\ db_conversations'[ev'.id].status = "FALSE"
               /\ db_agents'[ev.id].user_count = (IF prev - 1 > 0 THEN prev - 1 ELSE 0)
      ]_vars

\* The users whose conversation is active and assigned to agent a.
ActiveSessionsOf(convs, a) ==
    {u \in DOMAIN convs : convs[u].status = "TRUE" /\ convs[u].agent = a}

\* C20: in every reachable state each agent's durable user_count is the number
\* of active conversations assigned to that agent.
C20_UserCountEqualsActiveSessions ==
    \A a \in DOMAIN db_agents :
       db_agents[a].user_count = Cardinality(ActiveSessionsOf(db_conversations, a))

\* C21: a rejected input changes nothing: register_agent or request_live_chat
\* without a domain, and send_message without a recipient, leave the registry,
\* the domain queues, the session map and every durable record unchanged; the
\* two domain cases send exactly one notification and it reaches the connection
\* that sent the event; the missing-recipient case records and delivers no
\* message.
C21_RejectedInputChangesNothing ==
    [][ /\ ((ev'.op \in {"register_agent", "request_live_chat"} /\ ev'.arg = None) =>
              (/\ UNCHANGED <<agents, agent_queues, users_mapping, db_agents, db_users,
                              db_conversations>>
               /\ Len(emitted') = 1
               /\ ev'.sid \in MembersIn(rooms', closed', emitted'[1].room)))
        /\ ((ev'.op = "send_message" /\ ev'.arg = None) =>
              (/\ UNCHANGED <<agents, agent_queues, users_mapping, db_agents, db_users,
                              db_conversations, appended>>
               /\ emitted' = <<>>))
      ]_vars

----------------------------------------------------------------------------
\* Durable-store calls that fail inside the handlers that wrap their whole
\* body in  try: with get_db_cursor() ... except.  get_db_cursor rolls the
\* transaction back when the body raises and commits when the body is left
\* (also by return), so a statement of the body can raise, and so can the
\* commit, which runs after everything the body did, its emits included.

\* Where the call fails: at the first SELECT (or at get_connection), at the
\* first write of the body, or at connection.commit().
Stages == {"select", "write", "commit"}

\* register_agent with a domain whose database call raises: the except branch
\* emits error to request.sid; what the body did to the registry and the
\* queues before the call that raised stays done.
RegisterAgentDbError(sid, domain, old, stage) ==
    LET id == AgentIdentity(sid, old)
        existing == id \in DOMAIN db_agents
        q1 == IF existing THEN LeaveOldQueue(agent_queues, id, domain) ELSE agent_queues
        fail == Msg("error", sid, <<>>)
    IN
    /\ sid \in AgentSids
    /\ Live(sid)
    /\ Handled(sid)
    /\ domain # None
    /\ DomainInUse(domain)
    /\ rooms' = JoinRoom(rooms, id, sid)
    /\ CASE stage = "select" ->
              /\ UNCHANGED <<agents, agent_queues>>
              /\ emitted' = <<fail>>
         [] stage = "write" /\ existing ->
              \* the UPDATE raises: the old queue has been left already
              /\ agent_queues' = q1
              /\ agents' = agents
              /\ emitted' = <<fail>>
         [] stage = "write" /\ ~existing ->
              \* the INSERT raises: registry and queue were written before it
              /\ QueueLen(q1, domain) < MaxQueue
              /\ agents' = Put(agents, id, OnlineEntry(domain))
              /\ agent_queues' = Enqueue(q1, domain, id)
              /\ emitted' = <<fail>>
         [] OTHER ->
              \* the commit raises: the body has run to its return
              /\ QueueLen(q1, domain) < MaxQueue
              /\ agents' = Put(agents, id, OnlineEntry(domain))
              /\ agent_queues' = Enqueue(q1, domain, id)
              /\ emitted' = <<Msg("agent_status", Broadcast, <<"online">>), fail>>
    /\ ev' = Event("register_agent", sid, id, domain, "db_error", id)
    /\ UNCHANGED <<users_mapping, db_agents, db_users, db_conversations, closed,
                   ended, appended>>

\* request_live_chat with a domain whose database call raises: the except
\* branch emits error to the room of the user identity (joined at line 297).
\* The write and the commit are those of an admission.
RequestLiveChatDbError(sid, domain, old, stage) ==
    LET uid == UserIdentity(sid, old)
        fail == Msg("error", uid, <<>>)
    IN
    /\ sid \in UserSids
    /\ Live(sid)
    /\ Handled(sid)
    /\ domain # None
    /\ DomainInUse(domain)
    /\ rooms' = JoinRoom(rooms, uid, sid)
    /\ IF stage = "select"
       THEN /\ users_mapping' = users_mapping
            /\ emitted' = <<fail>>
            /\ ev' = Event("request_live_chat", sid, uid, domain, "db_error", None)
       ELSE /\ ~ActiveConversation(db_users, db_conversations, uid)
            /\ \E a \in LeastLoaded(db_agents, AvailableAgents(db_agents, domain)) :
                  /\ MapListLen(users_mapping, a) < MaxList
                  \* the session map is written before the INSERTs
                  /\ users_mapping' = LinkUser(users_mapping, uid, a)
                  /\ emitted' = IF stage = "write" THEN <<fail>>
                                ELSE <<Msg("live_chat_connected", uid, <<>>),
                                       Msg("new_live_chat", a, <<>>), fail>>
                  /\ ev' = Event("request_live_chat", sid, uid, domain, "db_error", a)
    /\ UNCHANGED <<agents, agent_queues, db_agents, db_users, db_conversations, closed,
                   ended, appended>>

\* send_message with a recipient whose database call raises: rollback, error
\* to the room of the sender, no receive_message.
SendMessageDbError(sid, sender, recipient) ==
    /\ Live(sid)
    /\ Handled(sid)
    /\ sender \in IdentitiesOf(sid)
    /\ recipient # None
    /\ ev' = Event("send_message", None, sender, recipient, "db_error",
                   ConversationKey(sender, recipient))
    /\ emitted' = <<Msg("error", sender, <<>>)>>
    /\ UNCHANGED <<agents, users_mapping, agent_queues, db_agents, db_users,
                   db_conversations, rooms, closed, ended, appended>>

\* end_chat of a user with a session-map entry whose database call raises:
\* the emits and the unlinking are inside the try, after the with block, and
\* are skipped; the except branch only logs.
EndChatDbError(user) ==
    /\ HandledByAny(Sids)
    /\ Truthy(MapGet(user))
    /\ ev' = Event("end_chat", None, user, None, "db_error", MapGet(user).str)
    /\ emitted' = <<>>
    /\ UNCHANGED <<agents, users_mapping, agent_queues, db_agents, db_users,
                   db_conversations, rooms, closed, ended, appended>>

\* restore_chats with an agent id whose database call raises: the except
\* branch only logs.
RestoreChatsDbError(sid, agent_id) ==
    /\ Live(sid)
    /\ Handled(sid)
    /\ agent_id # None
    /\ ev' = Event("restore_chats", sid, agent_id, None, "db_error", agent_id)
    /\ emitted' = <<>>
    /\ UNCHANGED <<agents, users_mapping, agent_queues, db_agents, db_users,
                   db_conversations, rooms, closed, ended, appended>>

\* One domain and one message text; every handler with and without a failing
\* database call.
NextWriteFaults ==
    \/ /\ Budget(MaxSteps)
       /\ \E sid \in AgentSids, domain \in {"d1", None},
             old \in {None} \cup Resumable(db_agents, AgentSids) :
             RegisterAgent(sid, domain, old)
    \/ /\ Budget(MaxSteps)
       /\ \E sid \in AgentSids, old \in {None} \cup Resumable(db_agents, AgentSids),
             stage \in Stages :
             RegisterAgentDbError(sid, "d1", old, stage)
    \/ /\ Budget(MaxSteps)
       /\ \E sid \in UserSids, domain \in {"d1", None},
             old \in {None} \cup Resumable(db_users, UserSids) :
             RequestLiveChat(sid, domain, old)
    \/ /\ Budget(MaxSteps)
       /\ \E sid \in UserSids, old \in {None} \cup Resumable(db_users, UserSids),
             stage \in Stages :
             RequestLiveChatDbError(sid, "d1", old, stage)
    \/ /\ Budget(MaxSteps)
       /\ \E sid \in Sids, sender \in Ids :
             \E recipient \in Recipients(sid) \cup {None} :
                SendMessage(sid, sender, recipient, <<"h">>)
    \/ /\ Budget(MaxSteps)
       /\ \E sid \in Sids, sender \in Ids :
             \E recipient \in Recipients(sid) :
                SendMessageDbError(sid, sender, recipient)
    \/ /\ Budget(MaxSteps)
       /\ \E user \in UserSids : EndChat(user)
    \/ /\ Budget(MaxSteps)
       /\ \E user \in UserSids : EndChatDbError(user)
    \/ /\ Budget(MaxSteps)
       /\ \E sid \in AgentSids :
             \E agent_id \in (IdentitiesOf(sid) \cap DOMAIN db_agents) \cup {None} :
                RestoreChats(sid, agent_id)
    \/ /\ Budget(MaxSteps)
       /\ \E sid \in AgentSids :
             \E agent_id \in IdentitiesOf(sid) \cap DOMAIN db_agents :
                RestoreChatsDbError(sid, agent_id)
    \/ /\ Budget(MaxSteps)
       /\ \E sid \in Sids : Disconnect(sid)
    \/ /\ Budget(MaxSteps)
       /\ \E agent_id \in AgentSids : AgentOffline(agent_id)
    \/ /\ Budget(MaxSteps)
       /\ \E agent_id \in AgentSids : AgentOfflineDbError(agent_id)

SpecWriteFaults == Init /\ [][NextWriteFaults]_vars

\* The outcomes of a handler whose database call raised.
DbFailed == {"error", "db_error"}

\* C22: when a durable-store call fails inside register_agent,
\* request_live_chat, send_message or end_chat, no durable record changes and
\* the in-memory registry, the domain queues and the session map are what they
\* were before the event.
C22_FailedWriteLeavesMemoryUnchanged ==
    [][(/\ ev'.op \in {"register_agent", "request_live_chat", "send_message", "end_chat"}
        /\ ev'.outcome \in DbFailed) =>
         (/\ UNCHANGED <<db_agents, db_users, db_conversations>>
          /\ UNCHANGED <<agents, agent_queues, users_mapping>>)
      ]_vars

\* C23: write-through before notification: at every agent_status broadcast
\* (online from register_agent, offline from agent_offline or disconnect) the
\* agents table records that status for that agent, and at every
\* live_chat_connected / new_live_chat notification the tables record the
\* session of that user with that agent as active.
C23_NotificationsReportCommittedWrites ==
    [][\A i \in 1..Len(emitted') :
         LET n == emitted'[i]
             Assigned(u, a) == /\ u \in DOMAIN db_conversations'
                               /\ db_conversations'[u].agent = a
                               /\ db_conversations'[u].status = "TRUE"
         IN /\ (n.event = "agent_status") =>
                  (/\ ev'.agent \in DOMAIN db_agents'
                   /\ db_agents'[ev'.agent].status = n.data[1])
            /\ (n.event = "live_chat_connected") => Assigned(n.room, ev'.agent)
            /\ (n.event = "new_live_chat") => Assigned(ev'.id, n.room)
      ]_vars

\* The notification n of the step is addressed to the connection that sent the
\* event: it goes to a room the connection is in (a broadcast to everyone is
\* not counted).  send_message and end_chat are recorded by the identity they
\* name; a connection that sends under an identity is in the room of that
\* identity.
ReachesSender(n) ==
    /\ n.room # Broadcast
    /\ IF ev'.sid # None
       THEN ev'.sid \in MembersIn(rooms', closed', n.room)
       ELSE n.room = ev'.id

\* The number of notifications of the step, among those of the given events,
\* that reach the connection that sent the event.
Received(events) ==
    Cardinality({i \in 1..Len(emitted') :
                    emitted'[i].event \in events /\ ReachesSender(emitted'[i])})

\* The outcomes of an event whose handling failed: a validation failure or a
\* database call that raised.  (send_message without a recipient is "dropped".)
Failures == {"rejected", "ignored"} \cup DbFailed

AllEvents == {"error", "agent_status", "no_agents_available", "live_chat_connected",
              "live_chat_reconnected", "new_live_chat", "user_reconnected",
              "restore_active_chats", "receive_message", "chat_ended"}

\* C24: every event whose handling fails (register_agent, request_live_chat,
\* restore_chats, send_message with a recipient, end_chat) results in exactly
\* one notification to the connection that sent it; and every request_live_chat
\* with a domain sends the requesting connection exactly one of
\* live_chat_connected, live_chat_reconnected, no_agents_available and error.
C24_FailureNotifiesSenderOnce ==
    [][ /\ ((/\ ev'.op \in {"register_agent", "request_live_chat", "restore_chats",
                           "send_message", "end_chat"}
             /\ ev'.outcome \in Failures) =>
               (Received(AllEvents) = 1))
        /\ ((ev'.op = "request_live_chat" /\ ev'.arg # None /\ ev'.outcome # "selected") =>
               (Received({"live_chat_connected", "live_chat_reconnected",
                          "no_agents_available", "error"}) = 1))
      ]_vars

\* The users in the list the session map keeps under an agent key.
AssignedUsers(m, a) == IF a \in DOMAIN m /\ IsList(m[a]) THEN m[a].list ELSE <<>>

\* C25: in every reachable state the session map is a consistent index in both
\* directions: it holds u -> a exactly when u is in a's list of assigned
\* users, and u occurs in that list at most once.
C25_SessionMapBidirectional ==
    \A u \in UserSids, a \in AgentSids :
       /\ (u \in DOMAIN users_mapping /\ users_mapping[u] = Str(a))
             <=> InSeq(AssignedUsers(users_mapping, a), u)
       /\ Count(AssignedUsers(users_mapping, a), u) <= 1

\* C26: send_message changes only the transcript of one session: no session's
\* active flag and no session's assigned agent differs after a send_message
\* from what it was before, so a session that end_chat closed stays inactive
\* and a session stays with the agent its admission chose.
C26_SendMessageKeepsStatusAndAgent ==
    [][(ev'.op = "send_message") =>
         (\A k \in DOMAIN db_conversations :
             /\ k \in DOMAIN db_conversations'
             /\ db_conversations'[k].status = db_conversations[k].status
             /\ db_conversations'[k].agent = db_conversations[k].agent)
      ]_vars

====
